---- MODULE Spec2Model ----
(***************************************************************************)
(* Phenology pipeline of lby-homework:                                     *)
(*   scripts/extract_phenology.py      per-pixel SOS / EOS / peak          *)
(*   scripts/analyze_phenology.py      validity mask, per-pixel OLS trend  *)
(*   scripts/perform_trend_analysis.py per-zone Mann-Kendall test          *)
(*   scripts/analyze_phenology_by_veg.py zonal means by land-cover class   *)
(*                                                                         *)
(* Floats are modelled exactly: a float is a record [nan, num, den] with   *)
(* num/den a reduced fraction, so 1.5 is Rat(3, 2) and NaN is a value of   *)
(* its own that every arithmetic operation propagates.                     *)
(***************************************************************************)
EXTENDS Integers, Sequences, FiniteSets, TLC

VARIABLES
    \* extract_phenology.py, one pixel of one year
    curve,          \* daily_smoothed_collection: NDVI per day of year
    rec,            \* the exported bands sos, eos, peak (and the amplitude image)
    valid,          \* analyze_phenology.py valid_mask of that pixel and year
    epc,            \* position in the extraction
    \* analyze_phenology.py, the per-pixel trend loop
    nYears,         \* len(tif_files)
    npix,           \* height * width, pixels in row-major order
    stack,          \* phenology_stack: per pixel, per year <<sos, eos>> as exported
    sos_slope,      \* per pixel
    eos_slope,      \* per pixel
    los_slope,      \* per pixel, written after the loop
    idx,            \* loop positions [1 .. idx) have been processed
    order,          \* the pixel visited at each loop position
    tpc,            \* position in the trend script
    \* perform_trend_analysis.py
    df,             \* per vegetation type id: mean_ndvi of its rows, sorted by year
    todo,           \* unique_veg_types still to visit, ascending
    results,        \* the rows appended to results
    mpc,            \* position in the Mann-Kendall script
    \* analyze_phenology_by_veg.py
    flat,           \* lc_flat, sos_flat, eos_flat, los_flat: one entry per pixel
    zdf,            \* the DataFrame df, its rows keeping their pixel index
    lc_nodata,      \* nodata of the land-cover raster
    trend_nodata,   \* nodata of the trends raster
    zonal_mean,     \* the grouped means, keyed by LC_Type_ID
    zpc,            \* position in the zonal script
    \* analyze_phenology_by_veg.py, the read of the land-cover raster
    lc_src,         \* band 1 of the land-cover file, by <<row, column>>
    src_shape,      \* <<height, width>> of the land-cover file
    trends_shape,   \* <<height, width>> of trends_profile
    landcover_array, \* what src.read returns, by <<row, column>>
    apc,            \* position in the read
    \* extract_phenology.py, the harmonic fit of one year
    nobs,           \* per pixel, the unmasked NDVI images of the year
    bands,          \* band names of the images of ndvi_collection
    fit,            \* per pixel, harmonic_fit
    frec,           \* per pixel, the bands of the exported image
    fpc,            \* position in the year's computation
    \* download_gee_data.py, one dataset
    dataset,        \* the images of ee.ImageCollection(config['collection'])
    collection,     \* the images of the dataset kept by the date filter
    monthly_collection, \* one image per year and month
    results_fc,     \* one feature per image of monthly_collection
    dpc             \* position in the dataset's processing

varsE == <<curve, rec, valid, epc>>
varsT == <<nYears, npix, stack, sos_slope, eos_slope, los_slope, idx, order, tpc>>
varsM == <<df, todo, results, mpc>>
varsZ == <<flat, zdf, lc_nodata, trend_nodata, zonal_mean, zpc>>
varsA == <<lc_src, src_shape, trends_shape, landcover_array, apc>>
varsF == <<nobs, bands, fit, frec, fpc>>
varsD == <<dataset, collection, monthly_collection, results_fc, dpc>>
vars == <<varsE, varsT, varsM, varsZ, varsA, varsF, varsD>>

----------------------------------------------------------------------------
(* Bounds of the model *)

NDays == 5          \* days of the daily curve (365 in the script)
MaxVal == 4         \* NDVI levels 0 .. MaxVal of the daily curve
MaxYears == 7       \* at most this many annual files
MaxMasked == 2      \* at most this many undefined years in a pixel's series
MaxSlope == 2       \* yearly drift of the synthetic input series, -1 .. MaxSlope
NPix == 2           \* pixels of the raster in the loop specification
NPixO == 3          \* pixels of the raster visited in any order
MaxRows == 5        \* at most this many yearly rows of one vegetation type
NYearsD == 2         \* years from start_date to end_date
MaxImages == 2       \* images of the dataset's collection, at most
NPixF == 2           \* pixels of the year's NDVI collection
MaxObs == 9          \* unmasked NDVI images of a pixel in a year, at most
MaxSrcDim == 2       \* height and width of the land-cover file, at most
MaxDstDim == 3       \* height and width of the trends raster, at most
MaxTieRows == 10     \* rows of a series of two levels
MaxMKVal == 5       \* mean_ndvi levels 1 .. MaxMKVal
NTypes == 2         \* vegetation types in the loop specification
NPixZ == 3          \* pixels of the trends raster in the zonal script
MaxTrendVal == 2    \* SOS trend levels 1 .. MaxTrendVal

----------------------------------------------------------------------------
(* Exact arithmetic *)

Abs(x) == IF x < 0 THEN -x ELSE x

RECURSIVE GCD(_, _)
GCD(a, b) == IF b = 0 THEN a ELSE GCD(b, a % b)

NaN == [nan |-> TRUE, num |-> 0, den |-> 1]

Rat(n, d) ==
    IF d = 0 THEN NaN
    ELSE LET g == GCD(Abs(n), Abs(d))
             s == IF d < 0 THEN -1 ELSE 1
         IN  [nan |-> FALSE, num |-> s * (n \div g), den |-> s * (d \div g)]

Num(n) == [nan |-> FALSE, num |-> n, den |-> 1]

IsNaN(x) == x.nan

Sub(x, y) ==
    IF x.nan \/ y.nan THEN NaN
    ELSE Rat(x.num * y.den - y.num * x.den, x.den * y.den)

SetMin(S) == CHOOSE m \in S : \A x \in S : m <= x
SetMax(S) == CHOOSE m \in S : \A x \in S : m >= x

----------------------------------------------------------------------------
(* scripts/extract_phenology.py: extract_phenology_for_year, for one pixel. *)
(* The collection-level where / multiply / min of lines 102-111 are read    *)
(* per pixel: image by image (day by day), then reduced over the days.      *)

Sentinel == 1000
amplitude_threshold_den == 2    \* amplitude_threshold = 0.5 = 1 / 2

days_of_year == 1 .. NDays

Curves == [days_of_year -> 0 .. MaxVal]

max_ndvi(c) == SetMax({c[d] : d \in days_of_year})
min_ndvi(c) == SetMin({c[d] : d \in days_of_year})

\* qualityMosaic('NDVI'): the doy of an image holding the maximum; which one
\* among equal maxima is not specified by the library.
PeakDoys(c) == {d \in days_of_year : c[d] = max_ndvi(c)}

amplitude(c) == max_ndvi(c) - min_ndvi(c)

\* threshold = min + amplitude * 0.5, kept as threshold * 2 to stay integral
threshold2(c) == amplitude_threshold_den * min_ndvi(c) + amplitude(c)

\* img.select('NDVI').gt(threshold)
greenup_phase_ge(c) ==
    [d \in days_of_year |->
        IF amplitude_threshold_den * c[d] >= threshold2(c) THEN 1 ELSE 0]
greenup_phase(c) ==
    [d \in days_of_year |->
        IF amplitude_threshold_den * c[d] > threshold2(c) THEN 1 ELSE 0]

\* .where(greenup_phase.eq(0), 1000)
sos_image_sentinel_one(c) ==
    [d \in days_of_year |-> IF greenup_phase(c)[d] = 0 THEN 1 ELSE greenup_phase(c)[d]]
sos_image(c) ==
    [d \in days_of_year |->
        IF greenup_phase(c)[d] = 0 THEN Sentinel ELSE greenup_phase(c)[d]]

\* .multiply(doy).min()
sos_doy(c) == SetMin({sos_image(c)[d] * d : d \in days_of_year})

\* img.select('NDVI').lt(threshold)
senescence_phase(c) ==
    [d \in days_of_year |->
        IF amplitude_threshold_den * c[d] < threshold2(c) THEN 1 ELSE 0]

eos_image(c) ==
    [d \in days_of_year |->
        IF senescence_phase(c)[d] = 0 THEN Sentinel ELSE senescence_phase(c)[d]]

\* .multiply(doy).min().subtract(1)
eos_doy(c) == SetMin({eos_image(c)[d] * d : d \in days_of_year}) - 1

NoRec == [sos |-> 0, eos |-> 0, peak |-> 0, amplitude |-> 0]

\* analyze_phenology.py line 42, for one pixel of one year
ValidUpper == 366
valid_mask(sos, eos) == (sos > 0) /\ (sos < ValidUpper) /\ (eos > 0) /\ (eos < ValidUpper)

ExtractPhenology ==
    /\ epc = "curve"
    /\ \E p \in PeakDoys(curve) :
         rec' = [sos |-> sos_doy(curve), eos |-> eos_doy(curve), peak |-> p,
                 amplitude |-> amplitude(curve)]
    /\ epc' = "exported"
    /\ UNCHANGED <<curve, valid>>
    /\ UNCHANGED <<varsT, varsM, varsZ, varsA, varsF, varsD>>

MaskYear ==
    /\ epc = "exported"
    /\ valid' = valid_mask(rec.sos, rec.eos)
    /\ epc' = "masked"
    /\ UNCHANGED <<curve, rec>>
    /\ UNCHANGED <<varsT, varsM, varsZ, varsA, varsF, varsD>>

IdleE == curve = <<>> /\ rec = NoRec /\ valid = FALSE /\ epc = "idle"
IdleT ==
    /\ nYears = 0 /\ npix = 0 /\ stack = <<>> /\ sos_slope = <<>>
    /\ eos_slope = <<>> /\ los_slope = <<>> /\ idx = 0 /\ order = <<>>
    /\ tpc = "idle"
IdleM == df = <<>> /\ todo = <<>> /\ results = <<>> /\ mpc = "idle"
IdleZ ==
    /\ flat = <<>> /\ zdf = <<>> /\ lc_nodata = 0 /\ trend_nodata = 0
    /\ zonal_mean = <<>> /\ zpc = "idle"

IdleA ==
    /\ lc_src = <<>> /\ src_shape = <<0, 0>> /\ trends_shape = <<0, 0>>
    /\ landcover_array = <<>> /\ apc = "idle"
IdleF == nobs = <<>> /\ bands = {} /\ fit = <<>> /\ frec = <<>> /\ fpc = "idle"

IdleD ==
    /\ dataset = <<>> /\ collection = <<>> /\ monthly_collection = <<>>
    /\ results_fc = <<>> /\ dpc = "idle"

InitExtract ==
    /\ curve \in Curves
    /\ rec = NoRec
    /\ valid = FALSE
    /\ epc = "curve"
    /\ IdleT /\ IdleM /\ IdleZ /\ IdleA /\ IdleF /\ IdleD

NextExtract == ExtractPhenology \/ MaskYear

SpecExtract == InitExtract /\ [][NextExtract]_vars

----------------------------------------------------------------------------
(* Claims about the extraction *)

Extracted == epc \in {"exported", "masked"}

Above(c, d) == amplitude_threshold_den * c[d] > threshold2(c)
Below(c, d) == amplitude_threshold_den * c[d] < threshold2(c)

\* the curve exceeds the threshold exactly on d1 .. d2 and is below it elsewhere
BumpOn(c, d1, d2) ==
    /\ d1 <= d2
    /\ \A d \in days_of_year :
         IF d1 <= d /\ d <= d2 THEN Above(c, d) ELSE Below(c, d)

\* C1: for a single-peaked bump above the threshold exactly on [d1, d2], the
\* extraction returns sos = d1, eos = d2 and peak = the day of the maximum.
C1_BumpGivesD1D2 ==
    Extracted =>
        \A d1, d2 \in days_of_year :
            BumpOn(curve, d1, d2) =>
                /\ rec.sos = d1
                /\ rec.eos = d2
                /\ curve[rec.peak] = max_ndvi(curve)

IsFlat(c) == \A d, e \in days_of_year : c[d] = c[e]

InDoyRange(x) == x \in 1 .. 366

\* C2: a flat curve gives amplitude 0 and sos, eos both outside the valid
\* day-of-year range, and the trend analysis' validity mask rejects the year.
C2_FlatUndefined ==
    (Extracted /\ IsFlat(curve)) =>
        /\ rec.amplitude = 0
        /\ ~InDoyRange(rec.sos)
        /\ ~InDoyRange(rec.eos)
        /\ ~valid_mask(rec.sos, rec.eos)
        /\ (epc = "masked" => valid = FALSE)

C2_Witness == epc = "masked" /\ IsFlat(curve) /\ rec.sos = Sentinel /\ rec.eos = Sentinel - 1

----------------------------------------------------------------------------
(* scripts/analyze_phenology.py: main, sections 1 and 3 *)

MinValidYears == 5

Pixels == 1 .. npix
Years == 1 .. nYears

\* years = np.arange(len(tif_files)): the year index of file y is y - 1
years == [y \in Years |-> y - 1]

\* lines 42-47: np.where(valid_mask, ts, np.nan) for one pixel
sos_ts_own_mask(p) ==
    [y \in Years |->
        IF valid_mask(stack[p][y][1], stack[p][y][1]) THEN Num(stack[p][y][1]) ELSE NaN]
sos_ts(p) ==
    [y \in Years |->
        IF valid_mask(stack[p][y][1], stack[p][y][2]) THEN Num(stack[p][y][1]) ELSE NaN]
eos_ts(p) ==
    [y \in Years |->
        IF valid_mask(stack[p][y][1], stack[p][y][2]) THEN Num(stack[p][y][2]) ELSE NaN]

\* np.count_nonzero(~np.isnan(series))
count_valid(series) == Cardinality({y \in DOMAIN series : ~IsNaN(series[y])})

\* the guard of lines 73 and 76
EnoughValidGe(series) == count_valid(series) >= MinValidYears
EnoughValid(series) == count_valid(series) > MinValidYears

\* scipy.stats.linregress(x, y).slope = cov(x, y) / var(x), with no NaN
\* policy: a NaN in y makes both means and the covariance NaN, and so the slope.
\* The values of y are whole days, so their denominators are 1.
RECURSIVE SumOver(_, _)
SumOver(S, f) ==
    IF S = {} THEN 0
    ELSE LET t == CHOOSE u \in S : TRUE IN f[t] + SumOver(S \ {t}, f)

LsqSlope(x, y, S) ==
    LET n   == Cardinality(S)
        Xv == [i \in S |-> x[i]]
        Yv == [i \in S |-> y[i].num]
        XY == [i \in S |-> x[i] * y[i].num]
        XX == [i \in S |-> x[i] * x[i]]
        sx  == SumOver(S, Xv)
        sy  == SumOver(S, Yv)
        sxy == SumOver(S, XY)
        sxx == SumOver(S, XX)
    IN  Rat(n * sxy - sx * sy, n * sxx - sx * sx)

linregress_slope_unsquared(x, y) ==
    LET S  == DOMAIN y
        Xv == [i \in S |-> x[i]]
        Yv == [i \in S |-> y[i].num]
        XY == [i \in S |-> x[i] * y[i].num]
        XX == [i \in S |-> x[i] * x[i]]
    IN  IF \E i \in S : IsNaN(y[i]) THEN NaN
        ELSE Rat(Cardinality(S) * SumOver(S, XY) - SumOver(S, Xv) * SumOver(S, Yv),
                 Cardinality(S) * SumOver(S, XX) - SumOver(S, Xv))

linregress_slope(x, y) ==
    IF \E i \in DOMAIN y : IsNaN(y[i]) THEN NaN
    ELSE LsqSlope(x, y, DOMAIN y)

\* lines 67-68: the pixel (r, c) of the current loop position
current_pixel == order[idx]

\* lines 74 and 77: the cell [r, c] written is the cell of the pixel read
written_cell_by_position(p) == idx
written_cell_first(p) == 1
written_cell(p) == p

\* lines 69-74
SosStep ==
    /\ tpc = "sos"
    /\ idx <= npix
    /\ sos_slope' =
         IF EnoughValid(sos_ts(current_pixel))
         THEN [sos_slope EXCEPT ![written_cell(current_pixel)] =
                   linregress_slope(years, sos_ts(current_pixel))]
         ELSE sos_slope
    /\ tpc' = "eos"
    /\ UNCHANGED <<nYears, npix, stack, eos_slope, los_slope, idx, order>>
    /\ UNCHANGED <<varsE, varsM, varsZ, varsA, varsF, varsD>>

\* lines 70, 76-77, and the step of the two for loops
EosStep ==
    /\ tpc = "eos"
    /\ eos_slope' =
         IF EnoughValid(eos_ts(current_pixel))
         THEN [eos_slope EXCEPT ![written_cell(current_pixel)] =
                   linregress_slope(years, eos_ts(current_pixel))]
         ELSE eos_slope
    /\ idx' = idx + 1
    /\ tpc' = "sos"
    /\ UNCHANGED <<nYears, npix, stack, sos_slope, los_slope, order>>
    /\ UNCHANGED <<varsE, varsM, varsZ, varsA, varsF, varsD>>

\* line 80, after the loops
LosStep ==
    /\ tpc = "sos"
    /\ idx = npix + 1
    /\ los_slope' = [p \in Pixels |-> Sub(eos_slope[p], sos_slope[p])]
    /\ tpc' = "done"
    /\ UNCHANGED <<nYears, npix, stack, sos_slope, eos_slope, idx, order>>
    /\ UNCHANGED <<varsE, varsM, varsZ, varsA, varsF, varsD>>

NextTrend == SosStep \/ EosStep \/ LosStep

\* The annual files: per year the exported <<sos, eos>> of a pixel.  A season
\* drifts by b (sos) and b2 (eos) days a year, with an alternating wiggle w;
\* the years in M carry what the extraction exports when it finds no crossing.
YearCounts == 5 .. MaxYears
Drifts == -1 .. MaxSlope

SeriesOf(n, a, b, w, b2, M, kind) ==
    [y \in 1 .. n |->
        IF y \in M
        THEN IF kind = "sos" THEN <<Sentinel, Sentinel - 1>>
             ELSE <<a + b * (y - 1), 0>>
        ELSE <<a + b * (y - 1) + w * (y % 2), 30 + b2 * (y - 1)>>]

RichSeries(n) ==
    {SeriesOf(n, 10, b, w, b2, M, kind) :
        b \in Drifts, w \in {0, 1}, b2 \in {0, 1},
        M \in {T \in SUBSET (1 .. n) : Cardinality(T) <= MaxMasked},
        kind \in {"sos", "eos"}}

\* the last k years undefined
LoopSeries(n) ==
    {SeriesOf(n, 10, b, 0, 1, {y \in 1 .. n : y > n - k}, "sos") :
        b \in {0, MaxSlope}, k \in 0 .. MaxMasked}

\* for r in range(height): for c in range(width): row-major order
RowMajor(np) == [k \in 1 .. np |-> k]

\* every order in which the np pixels can be visited
Orders(np) == {o \in [1 .. np -> 1 .. np] : \A p \in 1 .. np : \E k \in 1 .. np : o[k] = p}

\* all years defined, or the last MaxMasked years undefined
OrderSeries(n) ==
    {SeriesOf(n, 10, b, 0, 1, {y \in 1 .. n : y > n - k}, "sos") :
        b \in {0, MaxSlope}, k \in {0, MaxMasked}}

InitTrendOrdered(np, series, orders) ==
    /\ nYears \in YearCounts
    /\ npix = np
    /\ stack \in [1 .. np -> series[nYears]]
    /\ sos_slope = [p \in 1 .. np |-> NaN]
    /\ eos_slope = [p \in 1 .. np |-> NaN]
    /\ los_slope = [p \in 1 .. np |-> NaN]
    /\ idx = 1
    /\ order \in orders
    /\ tpc = "sos"
    /\ IdleE /\ IdleM /\ IdleZ /\ IdleA /\ IdleF /\ IdleD

InitTrendWith(np, series) == InitTrendOrdered(np, series, {RowMajor(np)})

InitTrend == InitTrendWith(NPix, [n \in YearCounts |-> LoopSeries(n)])
InitOLS == InitTrendWith(1, [n \in YearCounts |-> RichSeries(n)])

\* the loop over a raster of NPix pixels
SpecTrend == InitTrend /\ [][NextTrend]_vars
\* the regression of one pixel, over a wide set of series
SpecOLS == InitOLS /\ [][NextTrend]_vars

\* the loop body applied to the pixels of a raster in every possible order
InitTrendAnyOrder ==
    InitTrendOrdered(NPixO, [n \in YearCounts |-> OrderSeries(n)], Orders(NPixO))
SpecTrendAnyOrder == InitTrendAnyOrder /\ [][NextTrend]_vars

----------------------------------------------------------------------------
(* Claims about the per-pixel OLS trend *)

SosDone(p) == p < idx \/ (p = idx /\ tpc = "eos")
EosDone(p) == p < idx

\* C3: a slope is computed only for a series with more than 5 valid years;
\* with 5 or fewer it stays NaN, and the loop goes on to every other pixel.
C3_FewYearsUndefined ==
    /\ tpc # "idle" =>
         \A p \in Pixels :
            /\ (count_valid(sos_ts(p)) <= 5 => IsNaN(sos_slope[p]))
            /\ (count_valid(eos_ts(p)) <= 5 => IsNaN(eos_slope[p]))
            /\ (~SosDone(p) => IsNaN(sos_slope[p]))
            /\ (~EosDone(p) => IsNaN(eos_slope[p]))
    /\ tpc = "sos" => idx <= npix + 1
    /\ tpc = "eos" => idx <= npix
    /\ tpc = "done" =>
         /\ idx = npix + 1
         /\ \A p \in Pixels :
               (count_valid(sos_ts(p)) = nYears /\ nYears > 5) =>
                   ~IsNaN(sos_slope[p]) /\ ~IsNaN(eos_slope[p])

\* a pixel with too few valid years has been passed and a later pixel has its slope
C3_Witness ==
    /\ tpc = "done"
    /\ npix >= 2
    /\ count_valid(sos_ts(1)) = 5
    /\ IsNaN(sos_slope[1])
    /\ count_valid(sos_ts(npix)) > 5
    /\ ~IsNaN(sos_slope[npix])

IsLinear(series, a, b) == \A y \in DOMAIN series : series[y] = Num(a + b * (y - 1))

Intercepts == 0 .. 40
LinearDrifts == -3 .. 4

ValidYears(series) == {y \in DOMAIN series : ~IsNaN(series[y])}

\* C5: with enough valid years and some undefined ones, the slope is the
\* least-squares slope over the valid (year index, value) pairs only.
C5_UndefinedYearsIgnored ==
    tpc = "done" =>
        \A p \in Pixels :
            (count_valid(sos_ts(p)) > 5 /\ count_valid(sos_ts(p)) < nYears) =>
                /\ ~IsNaN(sos_slope[p])
                /\ sos_slope[p] = LsqSlope(years, sos_ts(p), ValidYears(sos_ts(p)))

----------------------------------------------------------------------------
(* scripts/perform_trend_analysis.py: main, section 2, with the            *)
(* pymannkendall.original_test it calls                                     *)

MinRows == 4

\* __missing_values_analysis(x, method='skip')
skip_missing(x) == SelectSeq(x, LAMBDA e : ~IsNaN(e))

Sgn(d) == IF d > 0 THEN 1 ELSE IF d < 0 THEN -1 ELSE 0

Pairs(n) == {ij \in (1 .. n) \X (1 .. n) : ij[1] < ij[2]}

\* __mk_score: the sum of sgn(x[j] - x[i]) over i < j
mk_score_reversed(x) ==
    LET Term == [ij \in Pairs(Len(x)) |-> Sgn(x[ij[1]].num - x[ij[2]].num)]
    IN  SumOver(Pairs(Len(x)), Term)
mk_score(x) ==
    LET Term == [ij \in Pairs(Len(x)) |-> Sgn(x[ij[2]].num - x[ij[1]].num)]
    IN  SumOver(Pairs(Len(x)), Term)

\* __variance_s, times 18: n(n-1)(2n+5) less the tie groups' tp(tp-1)(2tp+5)
variance_s18(x) ==
    LET n == Len(x)
        uniq == {x[i].num : i \in 1 .. n}
        Tie == [v \in uniq |->
                    LET tp == Cardinality({i \in 1 .. n : x[i].num = v})
                    IN  tp * (tp - 1) * (2 * tp + 5)]
    IN  n * (n - 1) * (2 * n + 5) - SumOver(uniq, Tie)

\* __z_score: z = znum / sqrt(var_s), kept as <<znum, 18 * var_s>>
z_score_no_zero_case(s, v18) == <<IF s > 0 THEN s - 1 ELSE s + 1, v18>>
z_score(s, v18) ==
    <<IF s > 0 THEN s - 1 ELSE IF s = 0 THEN 0 ELSE s + 1, v18>>

\* norm.ppf(1 - 0.05 / 2) = 1.959964, squared and scaled
ZCritSq == 38415
ZScale == 10000

\* abs(z) > norm.ppf(1 - alpha / 2), which is p = 2 * (1 - cdf(abs(z))) < alpha
beyond_critical(z) == 18 * z[1] * z[1] * ZScale > ZCritSq * z[2]

\* __p_value
h_of(z) == beyond_critical(z)
\* p against a one-sided 0.05 level: abs(z) > 1.6449
p_lt_alpha_one_sided(z) == 18 * z[1] * z[1] * ZScale > 27055 * z[2]
p_lt_alpha(z) == beyond_critical(z)
trend_of_sign_only(z) ==
    IF z[1] < 0 THEN "decreasing"
    ELSE IF z[1] > 0 THEN "increasing"
    ELSE "no trend"
trend_of(z) ==
    IF z[1] < 0 /\ h_of(z) THEN "decreasing"
    ELSE IF z[1] > 0 /\ h_of(z) THEN "increasing"
    ELSE "no trend"

\* __sens_estimator on x_old, the missing values still in place: the
\* slopes (x[j] - x[i]) / (j - i) over i < j; a pair with a NaN gives NaN
sens_pairs(x) == {ij \in Pairs(Len(x)) : ~IsNaN(x[ij[1]]) /\ ~IsNaN(x[ij[2]])}
sens_estimator(x) ==
    [ij \in sens_pairs(x) |-> Rat(x[ij[2]].num - x[ij[1]].num, ij[2] - ij[1])]

Less(a, b) == a.num * b.den < b.num * a.den
Mid(a, b) == Rat(a.num * b.den + b.num * a.den, 2 * a.den * b.den)

\* the k-th smallest value of d
kth(d, k) ==
    CHOOSE v \in {d[p] : p \in DOMAIN d} :
        /\ Cardinality({p \in DOMAIN d : Less(d[p], v)}) < k
        /\ Cardinality({p \in DOMAIN d : ~Less(v, d[p])}) >= k

\* np.nanmedian of the slopes that are not NaN
nanmedian(d) ==
    LET n == Cardinality(DOMAIN d)
    IN  IF n = 0 THEN NaN
        ELSE IF n % 2 = 1 THEN kth(d, (n + 1) \div 2)
        ELSE Mid(kth(d, n \div 2), kth(d, n \div 2 + 1))

sens_slope(x_old) == nanmedian(sens_estimator(x_old))

original_test(x_old) ==
    LET x == skip_missing(x_old)
        s == mk_score(x)
        z == z_score(s, variance_s18(x))
    IN  [trend |-> trend_of(z), s |-> s, p_lt |-> p_lt_alpha(z),
         slope |-> sens_slope(x_old)]

\* f"{result.slope:.6f}": the slope rounded to 6 decimals
SlopeDecimals == 1000000
format_6f(v) ==
    IF v.nan THEN NaN
    ELSE Rat((2 * v.num * SlopeDecimals + v.den) \div (2 * v.den), SlopeDecimals)

\* Tau = s / (.5 * n * (n - 1)) divides by zero when fewer than two values
\* are left after the missing ones are skipped: ZeroDivisionError
test_raises(x_old) == Len(skip_missing(x_old)) < 2

\* one iteration of the for loop, lines 37-56; an exception ends the script
VisitType ==
    /\ mpc = "loop"
    /\ todo # <<>>
    /\ LET veg_id == Head(todo)
           subset == df[veg_id]
       IN  IF Len(subset) < MinRows
           THEN results' = results /\ mpc' = mpc
           ELSE IF test_raises(subset)
           THEN results' = results /\ mpc' = "raised"
           ELSE LET result == original_test(subset)
                IN  /\ results' = Append(results,
                          [veg |-> veg_id,
                           Trend |-> result.trend,
                           Slope |-> format_6f(result.slope),
                           Significant |-> IF result.p_lt THEN "Yes" ELSE "No"])
                    /\ mpc' = mpc
    /\ todo' = Tail(todo)
    /\ UNCHANGED df
    /\ UNCHANGED <<varsE, varsT, varsZ, varsA, varsF, varsD>>

\* lines 59-68: the table is built and written
SaveResults ==
    /\ mpc = "loop"
    /\ todo = <<>>
    /\ mpc' = "saved"
    /\ UNCHANGED <<df, todo, results>>
    /\ UNCHANGED <<varsE, varsT, varsZ, varsA, varsF, varsD>>

NextMK == VisitType \/ SaveResults

RECURSIVE Ascending(_)
Ascending(S) ==
    IF S = {} THEN <<>> ELSE <<SetMin(S)>> \o Ascending(S \ {SetMin(S)})

MKFloats == {Num(v) : v \in 1 .. MaxMKVal} \cup {NaN}

AllRows == UNION {[1 .. n -> MKFloats] : n \in 1 .. MaxRows}

\* a rising or falling run of n values, its first value missing or not
Run(n, up, gap) ==
    [i \in 1 .. n |->
        IF gap /\ i = 1 THEN NaN
        ELSE Num(IF up THEN i ELSE MaxRows + 1 - i)]

LoopRows == {Run(n, up, gap) : n \in 0 .. MaxRows, up \in BOOLEAN, gap \in BOOLEAN}

\* sorted(df['veg_type_id'].unique()): the ids that have a row
InitMKWith(ids, rows) ==
    /\ df \in [ids -> rows]
    /\ todo = Ascending({v \in ids : df[v] # <<>>})
    /\ results = <<>>
    /\ mpc = "loop"
    /\ IdleE /\ IdleT /\ IdleZ /\ IdleA /\ IdleF /\ IdleD

InitMK == InitMKWith(1 .. NTypes, LoopRows)
InitMKTest == InitMKWith({1}, AllRows)

\* the loop over several vegetation types
SpecMK == InitMK /\ [][NextMK]_vars
\* the test of one vegetation type, over every short series
SpecMKTest == InitMKTest /\ [][NextMK]_vars

\* longer series of two levels only, so with many tied values, the first
\* year's value missing or not
TieFloats == {Num(1), Num(2)}
TieRows ==
    LET full == UNION {[1 .. n -> TieFloats] : n \in 1 .. MaxTieRows}
    IN  full \cup {<<NaN>> \o r : r \in full}

InitMKTies == InitMKWith({1}, TieRows)
\* the test of one vegetation type, over series with ties
SpecMKTies == InitMKTies /\ [][NextMK]_vars

----------------------------------------------------------------------------
(* Claims about the per-zone rank-based test *)

Visited(v) == v \in DOMAIN df /\ df[v] # <<>> /\ \A i \in 1 .. Len(todo) : todo[i] # v

RowsOf(v) == {i \in 1 .. Len(results) : results[i].veg = v}

n_valid(v) == Len(skip_missing(df[v]))

\* C6: the test is run for a type only when it has at least 4 valid
\* (non-missing) values; a type with fewer is skipped and gets no row.
C6_TestedOnlyWithFourValid ==
    mpc # "idle" =>
        \A v \in DOMAIN df :
            /\ (n_valid(v) < 4 => RowsOf(v) = {})
            /\ ((Visited(v) /\ n_valid(v) >= 4) => Cardinality(RowsOf(v)) = 1)

StrictlyIncreasing(x) == \A i, j \in 1 .. Len(x) : i < j => x[i].num < x[j].num

\* C7 as stated: a strictly increasing series of at least 4 points is
\* reported significant (p < 0.05) with the label increasing.
C7_IncreasingFromFour ==
    mpc # "idle" =>
        \A i \in 1 .. Len(results) :
            LET x == skip_missing(df[results[i].veg])
            IN  (Len(x) >= 4 /\ StrictlyIncreasing(x)) =>
                    results[i].Trend = "increasing" /\ results[i].Significant = "Yes"

\* C7 amended: a strictly increasing series of at least 5 valid points is
\* reported significant (p < 0.05) with the label increasing; with 4 points
\* the test cannot reach the 0.05 level and the label is no trend.
C7_IncreasingFromFive ==
    mpc # "idle" =>
        \A i \in 1 .. Len(results) :
            LET x == skip_missing(df[results[i].veg])
            IN  /\ (Len(x) >= 5 /\ StrictlyIncreasing(x)) =>
                        results[i].Trend = "increasing" /\ results[i].Significant = "Yes"
                /\ (Len(x) = 4 /\ StrictlyIncreasing(x)) =>
                        results[i].Trend = "no trend" /\ results[i].Significant = "No"

C7_Witness ==
    /\ mpc = "saved"
    /\ \E i \in 1 .. Len(results) :
         /\ df[results[i].veg] = [k \in 1 .. 5 |-> Num(k)]
         /\ results[i].Trend = "increasing"
         /\ results[i].Significant = "Yes"

\* the Mann-Kendall statistic, from its definition as a count of pairs
Increases(x) == Cardinality({ij \in Pairs(Len(x)) : x[ij[1]].num < x[ij[2]].num})
Decreases(x) == Cardinality({ij \in Pairs(Len(x)) : x[ij[1]].num > x[ij[2]].num})

\* C8: a tested series with as many increasing as decreasing pairs (S = 0)
\* gets the label no trend and is reported as not significant.
C8_BalancedNoTrend ==
    mpc # "idle" =>
        \A i \in 1 .. Len(results) :
            LET x == skip_missing(df[results[i].veg])
            IN  Increases(x) = Decreases(x) =>
                    results[i].Trend = "no trend" /\ results[i].Significant = "No"

C8_Witness ==
    /\ mpc = "saved"
    /\ \E i \in 1 .. Len(results) :
         LET x == skip_missing(df[results[i].veg])
         IN  /\ Len(x) >= 4
             /\ Increases(x) = Decreases(x)
             /\ Increases(x) > 0
             /\ results[i].Trend = "no trend"
             /\ results[i].Significant = "No"

----------------------------------------------------------------------------
(* scripts/analyze_phenology_by_veg.py: main, sections 3 to 6 *)

ExcludedClassesNoUrban == {0, 15, 16, 17}
ExcludedClasses == {0, 13, 15, 16, 17}

None == [set |-> FALSE, value |-> 0]
Some(v) == [set |-> TRUE, value |-> v]

\* lines 62-73: the DataFrame built from the flattened arrays
frame(f) ==
    [i \in 1 .. Len(f) |->
        [px |-> i, LC_Type_ID |-> f[i].lc, SOS_Trend |-> f[i].sos,
         EOS_Trend |-> f[i].eos, LOS_Trend |-> f[i].los]]

\* lines 78-79
drop_lc_nodata(d) ==
    IF lc_nodata.set
    THEN SelectSeq(d, LAMBDA r : r.LC_Type_ID # lc_nodata.value)
    ELSE d

\* lines 80-81
drop_trend_nodata(d) ==
    IF trend_nodata.set
    THEN SelectSeq(d, LAMBDA r : ~IsNaN(r.SOS_Trend))
    ELSE d

\* line 84
drop_excluded(d) == SelectSeq(d, LAMBDA r : r.LC_Type_ID \notin ExcludedClasses)

\* line 87
dropna_sos_only(d) == SelectSeq(d, LAMBDA r : ~IsNaN(r.SOS_Trend))
dropna(d) ==
    SelectSeq(d, LAMBDA r :
        ~IsNaN(r.SOS_Trend) /\ ~IsNaN(r.EOS_Trend) /\ ~IsNaN(r.LOS_Trend))

\* lines 75-92
Clean ==
    /\ zpc = "frame"
    /\ zdf' = dropna(drop_excluded(drop_trend_nodata(drop_lc_nodata(zdf))))
    /\ zpc' = IF zdf' = <<>> THEN "empty" ELSE "cleaned"
    /\ UNCHANGED <<flat, lc_nodata, trend_nodata, zonal_mean>>
    /\ UNCHANGED <<varsE, varsT, varsM, varsA, varsF, varsD>>

\* the mean of the whole-number values of one column over the rows in S
column_mean_all_rows(d, S, col) ==
    Rat(SumOver(S, [i \in S |-> d[i][col].num]), Len(d))
\* pandas skips NaN in a mean; a group with no value left has the mean NaN
column_mean(d, S, col) ==
    LET V == {i \in S : ~IsNaN(d[i][col])}
    IN  Rat(SumOver(V, [i \in V |-> d[i][col].num]), Cardinality(V))

\* line 95: df.groupby('LC_Type_ID').mean()
groupby_mean(d) ==
    LET keys == {d[i].LC_Type_ID : i \in 1 .. Len(d)}
        G(k) == {i \in 1 .. Len(d) : d[i].LC_Type_ID = k}
    IN  [k \in keys |->
            [SOS_Trend |-> column_mean(d, G(k), "SOS_Trend"),
             EOS_Trend |-> column_mean(d, G(k), "EOS_Trend"),
             LOS_Trend |-> column_mean(d, G(k), "LOS_Trend")]]

\* lines 94-111: the summary is grouped and written
GroupAndSave ==
    /\ zpc = "cleaned"
    /\ zonal_mean' = groupby_mean(zdf)
    /\ zpc' = "saved"
    /\ UNCHANGED <<flat, zdf, lc_nodata, trend_nodata>>
    /\ UNCHANGED <<varsE, varsT, varsM, varsA, varsF, varsD>>

NextZonal == Clean \/ GroupAndSave

LCClasses == {4, 5, 13, 255}
TrendFloats == {Num(v) : v \in 1 .. MaxTrendVal} \cup {NaN}

\* a pixel of the trends raster and its land-cover class; the LOS band is
\* EOS - SOS as analyze_phenology.py writes it
FlatPixels ==
    {[lc |-> c, sos |-> a, eos |-> e, los |-> Sub(e, a)] :
        c \in LCClasses, a \in TrendFloats, e \in {NaN, Num(1)}}

InitZonal ==
    /\ flat \in [1 .. NPixZ -> FlatPixels]
    /\ zdf = frame(flat)
    /\ lc_nodata \in {None, Some(255)}
    /\ trend_nodata = Some(NaN)
    /\ zonal_mean = <<>>
    /\ zpc = "frame"
    /\ IdleE /\ IdleT /\ IdleM /\ IdleA /\ IdleF /\ IdleD

SpecZonal == InitZonal /\ [][NextZonal]_vars

\* rasters that declare other nodata values, or none: a trends raster whose
\* nodata is a number holds that number in its nodata pixels
NodataValue == Num(-9999)

NodataPixels ==
    {[lc |-> c, sos |-> a, eos |-> Num(1), los |-> Sub(Num(1), a)] :
        c \in {4, 255}, a \in {NaN, Num(1), NodataValue}}

InitZonalNodata ==
    /\ flat \in [1 .. NPixZ -> NodataPixels]
    /\ zdf = frame(flat)
    /\ lc_nodata \in {None, Some(255)}
    /\ trend_nodata \in {None, Some(NaN), Some(NodataValue)}
    /\ zonal_mean = <<>>
    /\ zpc = "frame"
    /\ IdleE /\ IdleT /\ IdleM /\ IdleA /\ IdleF /\ IdleD

SpecZonalNodata == InitZonalNodata /\ [][NextZonal]_vars

----------------------------------------------------------------------------
(* Claims about the zonal summary *)

\* a pixel of the raster that takes part in the aggregation
Contributes(i) ==
    /\ ~(lc_nodata.set /\ flat[i].lc = lc_nodata.value)
    /\ flat[i].lc \notin {0, 13, 15, 16, 17}
    /\ ~IsNaN(flat[i].sos) /\ ~IsNaN(flat[i].eos) /\ ~IsNaN(flat[i].los)

ContributorsOf(c) == {i \in 1 .. Len(flat) : flat[i].lc = c /\ Contributes(i)}

\* m is the arithmetic mean of the numbers f(i), i in S
IsMeanOf(m, S, band) ==
    /\ ~IsNaN(m)
    /\ m.num * Cardinality(S) = m.den * SumOver(S, [i \in S |-> flat[i][band].num])

\* C9: every class with a contributing pixel has a row, holding for each
\* metric the arithmetic mean over exactly its contributing pixels.
C9_ZonalMeans ==
    zpc = "saved" =>
        \A c \in {flat[i].lc : i \in 1 .. Len(flat)} :
            ContributorsOf(c) # {} =>
                /\ c \in DOMAIN zonal_mean
                /\ IsMeanOf(zonal_mean[c].SOS_Trend, ContributorsOf(c), "sos")
                /\ IsMeanOf(zonal_mean[c].EOS_Trend, ContributorsOf(c), "eos")
                /\ IsMeanOf(zonal_mean[c].LOS_Trend, ContributorsOf(c), "los")

\* SOS values 1, 2 in class 4 average to 1.5 beside another class's own mean
C9_Witness ==
    /\ zpc = "saved"
    /\ flat[1].lc = 4 /\ flat[1].sos = Num(1)
    /\ flat[2].lc = 4 /\ flat[2].sos = Num(2)
    /\ flat[3].lc = 5 /\ flat[3].sos = Num(2)
    /\ DOMAIN zonal_mean = {4, 5}
    /\ zonal_mean[4].SOS_Trend = Rat(3, 2)
    /\ zonal_mean[5].SOS_Trend = Num(2)

\* C10: no excluded class id (0, 13, 15, 16, 17) is a row of the summary,
\* and no pixel of an excluded class is among the rows a mean is taken over.
C10_ExcludedNeverReported ==
    /\ zpc = "saved" => DOMAIN zonal_mean \cap {0, 13, 15, 16, 17} = {}
    /\ zpc \in {"cleaned", "saved"} =>
         \A j \in 1 .. Len(zdf) :
            /\ flat[zdf[j].px].lc \notin {0, 13, 15, 16, 17}
            /\ zdf[j].LC_Type_ID = flat[zdf[j].px].lc
    /\ zpc = "saved" =>
         \A c \in DOMAIN zonal_mean :
            zonal_mean[c].SOS_Trend =
                column_mean(zdf, {j \in 1 .. Len(zdf) : flat[zdf[j].px].lc = c}, "SOS_Trend")

\* a raster with valid pixels of class 13 beside a reported class
C10_Witness ==
    /\ zpc = "saved"
    /\ \E i \in 1 .. Len(flat) :
         /\ flat[i].lc = 13
         /\ ~IsNaN(flat[i].sos) /\ ~IsNaN(flat[i].eos)
    /\ DOMAIN zonal_mean # {}
    /\ 13 \notin DOMAIN zonal_mean


\* C11: a pixel whose trend value is the trends raster's nodata value, or
\* whose class is the land-cover raster's nodata value, is in no class mean,
\* whatever nodata values the rasters declare.
C11_NodataNeverCounted ==
    zpc \in {"cleaned", "saved"} =>
        \A j \in 1 .. Len(zdf) :
            LET i == zdf[j].px
            IN  /\ ~(lc_nodata.set /\ flat[i].lc = lc_nodata.value)
                /\ ~(trend_nodata.set /\ flat[i].sos = trend_nodata.value)
                /\ ~(trend_nodata.set /\ flat[i].eos = trend_nodata.value)

\* C12 as stated: an empty class is omitted and is never an error, also
\* when every class is empty: the summary is still produced and written.
C12_EmptyNeverAnError ==
    /\ zpc # "empty"
    /\ zpc = "saved" =>
         DOMAIN zonal_mean = {c \in LCClasses : ContributorsOf(c) # {}}

\* C12 amended: a class without contributing pixels is omitted from the
\* summary (never a zero or NaN mean) and the summary of the other classes
\* is written, as long as one pixel contributes; when no pixel of any class
\* contributes the script reports an error and writes no summary.
C12_EmptyClassOmitted ==
    /\ zpc = "saved" =>
         /\ DOMAIN zonal_mean = {c \in LCClasses : ContributorsOf(c) # {}}
         /\ \A c \in DOMAIN zonal_mean :
               /\ ~IsNaN(zonal_mean[c].SOS_Trend)
               /\ ~IsNaN(zonal_mean[c].EOS_Trend)
               /\ ~IsNaN(zonal_mean[c].LOS_Trend)
    /\ zpc = "cleaned" => \E i \in 1 .. Len(flat) : Contributes(i)
    /\ zpc = "empty" =>
         /\ \A i \in 1 .. Len(flat) : ~Contributes(i)
         /\ zonal_mean = <<>>

\* class 5 has pixels but none that contributes, class 4 is reported
C12_Witness ==
    /\ zpc = "saved"
    /\ \E i \in 1 .. Len(flat) : flat[i].lc = 5
    /\ ContributorsOf(5) = {}
    /\ DOMAIN zonal_mean = {4}


----------------------------------------------------------------------------
(* More claims about the extraction *)

\* C16: sos and eos lie outside 1..366 when the curve has no crossing of the
\* threshold, inside 1..366 when it has one, and the trend analysis takes a
\* yearly value as valid exactly when it lies in 1..366.
C16_MarkerDistinct ==
    /\ Extracted =>
         /\ (\E d \in days_of_year : Above(curve, d)) <=> InDoyRange(rec.sos)
         /\ (\E d \in days_of_year : Below(curve, d)) <=> InDoyRange(rec.eos)
    /\ epc = "masked" => (valid <=> (InDoyRange(rec.sos) /\ InDoyRange(rec.eos)))
    /\ epc = "masked" =>
         \A v \in 0 .. ValidUpper + 1 : valid_mask(v, v) <=> InDoyRange(v)

\* C17: whenever the extracted sos and eos are both valid days of year,
\* sos <= peak <= eos.
C17_SosPeakEosOrdered ==
    (Extracted /\ InDoyRange(rec.sos) /\ InDoyRange(rec.eos)) =>
        (rec.sos <= rec.peak /\ rec.peak <= rec.eos)

\* C18: a curve of non-zero amplitude that is never below the threshold on a
\* day after the peak day has an undefined eos, whatever it does before.
C18_NoDropAfterPeakUndefined ==
    (/\ Extracted
     /\ rec.amplitude # 0
     /\ \A d \in days_of_year : d > rec.peak => ~Below(curve, d))
        => ~InDoyRange(rec.eos)

\* days up to the peak on which the curve strictly exceeds the threshold
AboveUpToPeak == {d \in days_of_year : d <= rec.peak /\ Above(curve, d)}

\* C19: sos is the smallest day whose value strictly exceeds the threshold,
\* it is never later than the peak day, and it is undefined when no day up
\* to the peak exceeds the threshold.
C19_SosFirstAbove ==
    Extracted =>
        IF AboveUpToPeak # {}
        THEN /\ rec.sos = SetMin(AboveUpToPeak)
             /\ \A d \in days_of_year : d < rec.sos => ~Above(curve, d)
             /\ rec.sos <= rec.peak
             /\ InDoyRange(rec.sos)
        ELSE /\ ~InDoyRange(rec.sos)
             /\ ~valid_mask(rec.sos, rec.eos)

\* the threshold is first exceeded on day 3, after a day exactly at the
\* threshold, and the maximum comes later
C19_Witness ==
    /\ Extracted
    /\ rec.sos = 3
    /\ rec.sos < rec.peak
    /\ amplitude_threshold_den * curve[2] = threshold2(curve)
    /\ curve[rec.sos] < max_ndvi(curve)


----------------------------------------------------------------------------
(* Order independence of the per-pixel trend loop *)

\* what lines 69-77 compute from one series alone
SlopeOfSeries(series) ==
    IF count_valid(series) > MinValidYears THEN linregress_slope(years, series) ELSE NaN

\* a step of the loop leaves every cell but the current pixel's as it was
WritesOwnCellOnly ==
    (tpc \in {"sos", "eos"} /\ idx <= npix) =>
        \A p \in Pixels :
            p # order[idx] =>
                /\ sos_slope'[p] = sos_slope[p]
                /\ eos_slope'[p] = eos_slope[p]

----------------------------------------------------------------------------
(* The trend label and the reported Sen's slope *)

\* C20 as stated: the label is increasing only when the reported slope is
\* positive, decreasing only when it is negative, and no trend whenever the
\* test is not significant, for series with tied values too.
C20_LabelBySignOfSlope ==
    mpc # "idle" =>
        \A i \in 1 .. Len(results) :
            /\ results[i].Trend = "increasing" => results[i].Slope.num > 0
            /\ results[i].Trend = "decreasing" => results[i].Slope.num < 0
            /\ results[i].Significant = "No" => results[i].Trend = "no trend"

\* C20 amended: the label is determined by the 0.05 significance of the test
\* together with the sign of the Mann-Kendall score S, not of Sen's slope.
\* It is increasing only when the test is significant and S > 0, and then
\* the reported slope is positive or zero (zero when most pairs are tied);
\* decreasing only when significant and S < 0, the slope negative or zero;
\* and no trend whenever the test is not significant.
C20_LabelBySignOfScore ==
    mpc # "idle" =>
        \A i \in 1 .. Len(results) :
            LET x == skip_missing(df[results[i].veg])
            IN  /\ results[i].Trend = "increasing" =>
                     /\ results[i].Significant = "Yes"
                     /\ Increases(x) > Decreases(x)
                     /\ results[i].Slope.num >= 0
                /\ results[i].Trend = "decreasing" =>
                     /\ results[i].Significant = "Yes"
                     /\ Increases(x) < Decreases(x)
                     /\ results[i].Slope.num <= 0
                /\ results[i].Significant = "No" => results[i].Trend = "no trend"

\* seven years at one level then three at a higher one: significant and
\* increasing, yet more than half of the pairwise slopes are zero
C20_Witness ==
    /\ mpc = "saved"
    /\ \E i \in 1 .. Len(results) :
         /\ Len(df[results[i].veg]) = 10
         /\ results[i].Trend = "increasing"
         /\ results[i].Significant = "Yes"
         /\ results[i].Slope = Num(0)


----------------------------------------------------------------------------
(* scripts/analyze_phenology_by_veg.py: main, section 2, the land-cover     *)
(* raster read at the shape of the trends raster                            *)

Cells(shape) == (1 .. shape[1]) \X (1 .. shape[2])

\* Resampling.nearest of a read at another shape: the source index under
\* the centre of destination index i, (i - 1/2) * src / dst, rounded down
nearest_index(i, dst, src) == (((2 * i - 1) * src) \div (2 * dst)) + 1

\* the source index on the other side of that centre
neighbour_index(i, dst, src) ==
    LET k == nearest_index(i, dst, src)
    IN  IF k < src THEN k + 1 ELSE IF k > 1 THEN k - 1 ELSE k

\* a read that averages the nearest source cell with its neighbour
read_averaged(a, from, shape) ==
    [rc \in Cells(shape) |->
        (a[<<nearest_index(rc[1], shape[1], from[1]),
             nearest_index(rc[2], shape[2], from[2])>>]
         + a[<<neighbour_index(rc[1], shape[1], from[1]),
               neighbour_index(rc[2], shape[2], from[2])>>]) \div 2]

\* src.read(1, out_shape=(height, width), resampling=Resampling.nearest)
read_resampled(a, from, shape) ==
    [rc \in Cells(shape) |->
        a[<<nearest_index(rc[1], shape[1], from[1]),
            nearest_index(rc[2], shape[2], from[2])>>]]

\* lines 52-58
ReadLandcover ==
    /\ apc = "open"
    /\ landcover_array' = read_resampled(lc_src, src_shape, trends_shape)
    /\ apc' = "read"
    /\ UNCHANGED <<lc_src, src_shape, trends_shape>>
    /\ UNCHANGED <<varsE, varsT, varsM, varsZ, varsF, varsD>>

NextAlign == ReadLandcover

ZoneClasses == {1, 5}

InitAlign ==
    /\ src_shape \in (1 .. MaxSrcDim) \X (1 .. MaxSrcDim)
    /\ trends_shape \in (1 .. MaxDstDim) \X (1 .. MaxDstDim)
    /\ lc_src \in [Cells(src_shape) -> ZoneClasses]
    /\ landcover_array = <<>>
    /\ apc = "open"
    /\ IdleE /\ IdleT /\ IdleM /\ IdleZ /\ IdleF /\ IdleD

SpecAlign == InitAlign /\ [][NextAlign]_vars

\* source index k holds the centre of destination index i
HoldsCentre(k, i, dst, src) ==
    2 * dst * (k - 1) <= (2 * i - 1) * src /\ (2 * i - 1) * src < 2 * dst * k

\* C13: the land-cover raster is brought to the trends raster's height and
\* width by nearest-neighbour assignment: every cell of the aligned array
\* holds the class id of the source cell under its centre, so every aligned
\* id is an id of the source, and a source of the same shape is unchanged.
C13_NearestAlignment ==
    apc = "read" =>
        /\ DOMAIN landcover_array = Cells(trends_shape)
        /\ \A rc \in Cells(trends_shape) :
              /\ \E q \in Cells(src_shape) : landcover_array[rc] = lc_src[q]
              /\ \A q \in Cells(src_shape) :
                    (/\ HoldsCentre(q[1], rc[1], trends_shape[1], src_shape[1])
                     /\ HoldsCentre(q[2], rc[2], trends_shape[2], src_shape[2]))
                        => landcover_array[rc] = lc_src[q]
        /\ src_shape = trends_shape => landcover_array = lc_src

\* a 2 x 2 source with two classes read at 3 x 3
C13_Witness ==
    /\ apc = "read"
    /\ src_shape = <<2, 2>>
    /\ trends_shape = <<3, 3>>
    /\ lc_src[<<1, 1>>] = 1
    /\ lc_src[<<2, 2>>] = 5
    /\ landcover_array[<<1, 1>>] = 1
    /\ landcover_array[<<3, 3>>] = 5


----------------------------------------------------------------------------
(* scripts/extract_phenology.py: extract_phenology_for_year, the harmonic   *)
(* fit of lines 52-70.  A band name is a pair <<stem, i>>: <<"cos", 2>> is  *)
(* cos_2, and <<"NDVI", 0>>, <<"t", 0>>, <<"constant", 0>> have no index.   *)

harmonics == 3

Band(stem) == <<stem, 0>>

\* add_time_bands: image.addBands(... .rename('t'))
add_time_bands(b) == b \cup {Band("t")}

\* add_harmonic_bands: sin_i and cos_i for i in 1 .. harmonics
add_harmonic_bands(b) ==
    b \cup {<<"sin", i>> : i \in 1 .. harmonics} \cup {<<"cos", i>> : i \in 1 .. harmonics}

\* lines 64-66: ['constant', 'cos_1', 'sin_1', ..., 'cos_3', 'sin_3']
harmonic_bands ==
    [k \in 1 .. 2 * harmonics + 1 |->
        IF k = 1 THEN Band("constant")
        ELSE IF k % 2 = 0 THEN <<"cos", k \div 2>> ELSE <<"sin", k \div 2>>]

\* numX=len(harmonic_bands)
numX == Len(harmonic_bands)

\* .select(harmonic_bands + ['NDVI']): a name that matches no band of an
\* image is an error of the whole computation
select_fails(b) ==
    \E k \in 1 .. Len(harmonic_bands) + 1 :
        (harmonic_bands \o <<Band("NDVI")>>)[k] \notin b

\* ee.Reducer.linearRegression, per pixel: the output is null (masked)
\* when the number of inputs is less than or equal to numX
linearRegression(n) == IF n <= numX THEN "null" ELSE "coefficients"

\* lines 72-113 for one pixel: a masked fit masks the daily curve and so
\* sos, eos and peak; the export writes a masked pixel as 0
exported_record(f) == IF f = "null" THEN "masked" ELSE "computed"

\* .map(add_time_bands)
MapTimeBands ==
    /\ fpc = "collection"
    /\ bands' = add_time_bands(bands)
    /\ fpc' = "time"
    /\ UNCHANGED <<nobs, fit, frec>>
    /\ UNCHANGED <<varsE, varsT, varsM, varsZ, varsA, varsD>>

\* .map(add_harmonic_bands)
MapHarmonicBands ==
    /\ fpc = "time"
    /\ bands' = add_harmonic_bands(bands)
    /\ fpc' = "harmonic"
    /\ UNCHANGED <<nobs, fit, frec>>
    /\ UNCHANGED <<varsE, varsT, varsM, varsZ, varsA, varsD>>

\* lines 68-70 and what follows from the fit, when the export task runs
FitHarmonics ==
    /\ fpc = "harmonic"
    /\ IF select_fails(bands)
       THEN /\ fpc' = "failed"
            /\ UNCHANGED <<fit, frec>>
       ELSE /\ fit' = [p \in DOMAIN nobs |-> linearRegression(nobs[p])]
            /\ frec' = [p \in DOMAIN nobs |->
                           exported_record(linearRegression(nobs[p]))]
            /\ fpc' = "exported"
    /\ UNCHANGED <<nobs, bands>>
    /\ UNCHANGED <<varsE, varsT, varsM, varsZ, varsA, varsD>>

NextFit == MapTimeBands \/ MapHarmonicBands \/ FitHarmonics

\* .select('NDVI') of lines 54-58: the images hold the band NDVI alone
InitFit ==
    /\ nobs \in [1 .. NPixF -> 0 .. MaxObs]
    /\ bands = {Band("NDVI")}
    /\ fit = [p \in 1 .. NPixF |-> "none"]
    /\ frec = [p \in 1 .. NPixF |-> "none"]
    /\ fpc = "collection"
    /\ IdleE /\ IdleT /\ IdleM /\ IdleZ /\ IdleA /\ IdleD

SpecFit == InitFit /\ [][NextFit]_vars

\* C14: a pixel with fewer than 2K+2 = 8 valid samples gets no fit and an
\* all-undefined record, for that pixel only: the year's computation is not
\* aborted and every pixel with 8 samples or more gets its computed record.
C14_FewSamplesUndefinedOnly ==
    (/\ fpc \in {"exported", "failed"}
     /\ \E p \in DOMAIN nobs : nobs[p] < 2 * harmonics + 2)
        => /\ fpc = "exported"
           /\ \A p \in DOMAIN nobs :
                 frec[p] = IF nobs[p] < 2 * harmonics + 2 THEN "masked" ELSE "computed"


----------------------------------------------------------------------------
(* Partial results of the per-pixel trend loop *)

Absent(p) == IsNaN(sos_slope[p]) /\ IsNaN(eos_slope[p])
Complete(p) ==
    /\ sos_slope[p] = SlopeOfSeries(sos_ts(p))
    /\ eos_slope[p] = SlopeOfSeries(eos_ts(p))

\* a step leaves the slopes of the pixels the loop has passed as they were
CompletedUnchanged ==
    \A p \in Pixels :
        EosDone(p) => (sos_slope'[p] = sos_slope[p] /\ eos_slope'[p] = eos_slope[p])

\* C21 as stated: wherever the loop can be interrupted, every pixel's result
\* is either absent (both slopes undefined) or complete (every slope it
\* will get is written), and completed pixels are not changed afterwards.
C21_NoPartialPixel ==
    /\ [](tpc # "idle" => \A p \in Pixels : Absent(p) \/ Complete(p))
    /\ [][CompletedUnchanged]_vars

\* C21 amended: between two pixels and after the loop every pixel's result
\* is absent (not yet visited) or complete (visited), and a completed pixel
\* is never changed by a later step.  Inside a pixel's iteration the SOS
\* slope is written before the EOS slope is computed, so the pixel being
\* visited, and only that one, can hold a partial result.
C21_PartialOnlyCurrentPixel ==
    /\ [](tpc \in {"sos", "done"} =>
            \A p \in Pixels : IF EosDone(p) THEN Complete(p) ELSE Absent(p))
    /\ [](tpc = "eos" =>
            /\ \A p \in Pixels \ {current_pixel} :
                  IF EosDone(p) THEN Complete(p) ELSE Absent(p)
            /\ sos_slope[current_pixel] = SlopeOfSeries(sos_ts(current_pixel))
            /\ IsNaN(eos_slope[current_pixel]))
    /\ [][CompletedUnchanged]_vars

\* pixel 1 is complete, pixel 2 has its SOS slope and not yet its EOS slope
C21_Witness ==
    /\ tpc = "eos"
    /\ idx = 2
    /\ ~IsNaN(sos_slope[1]) /\ ~IsNaN(eos_slope[1])
    /\ ~IsNaN(sos_slope[2])
    /\ IsNaN(eos_slope[2])
    /\ ~IsNaN(SlopeOfSeries(eos_ts(2)))

\* C23: one joint validity mask serves the SOS and the EOS series, so after
\* the loop a pixel's SOS slope is defined if and only if its EOS slope is,
\* and its LOS slope is defined for exactly those pixels and is EOS - SOS.
C23_JointMaskSlopes ==
    tpc = "done" =>
        \A p \in Pixels :
            /\ IsNaN(sos_slope[p]) <=> IsNaN(eos_slope[p])
            /\ IsNaN(los_slope[p]) <=> IsNaN(sos_slope[p])
            /\ ~IsNaN(sos_slope[p]) =>
                  /\ los_slope[p] = Sub(eos_slope[p], sos_slope[p])
                  /\ los_slope[p].num * sos_slope[p].den * eos_slope[p].den =
                       los_slope[p].den * (eos_slope[p].num * sos_slope[p].den
                                           - sos_slope[p].num * eos_slope[p].den)
            /\ \A y \in Years : IsNaN(sos_ts(p)[y]) <=> IsNaN(eos_ts(p)[y])

\* a pixel with both slopes defined and a season that grows longer
C23_Witness ==
    /\ tpc = "done"
    /\ ~IsNaN(sos_slope[1]) /\ ~IsNaN(eos_slope[1])
    /\ sos_slope[1] = Num(0)
    /\ eos_slope[1] = Num(1)
    /\ los_slope[1] = Num(1)


----------------------------------------------------------------------------
(* The regressor bands of the fit and of the daily reconstruction *)

\* create_daily_image: ee.Image(1), whose band is named constant, with t
\* and the harmonic bands added
daily_image == add_harmonic_bands({Band("constant")} \cup {Band("t")})

\* .select(harmonic_bands) of create_daily_image
daily_regressors == harmonic_bands

\* C25: each of the 2K+1 names of the regression band list is a band of the
\* images of the year's NDVI collection when the bands are selected for the
\* regression, and the daily reconstruction selects the same names in the
\* same order from an image that has them.
C25_RegressorsPresent ==
    fpc \in {"harmonic", "failed", "exported"} =>
        /\ Len(harmonic_bands) = 2 * harmonics + 1
        /\ \A k \in 1 .. Len(harmonic_bands) : harmonic_bands[k] \in bands
        /\ daily_regressors = harmonic_bands
        /\ \A k \in 1 .. Len(daily_regressors) : daily_regressors[k] \in daily_image


----------------------------------------------------------------------------
(* download_gee_data.py: main, section 3, for one dataset.  A date is       *)
(* <<year, month, day>>; an image carries the date of its system:time_start,*)
(* its band names and the mean of its band over the study area.             *)

StartYear == 2003
EndYear == StartYear + NYearsD - 1
MonthsPerYear == 12
scale_factor_den == 10000    \* scale_factor = 0.0001 = 1 / 10000

start_date == <<StartYear, 1, 1>>
end_date == <<EndYear, 12, 31>>

band == "NDVI"

DateLt(a, b) ==
    \/ a[1] < b[1]
    \/ a[1] = b[1] /\ a[2] < b[2]
    \/ a[1] = b[1] /\ a[2] = b[2] /\ a[3] < b[3]

\* filterDate(start, end): start inclusive, end exclusive
filterDate(c, start, end) ==
    SelectSeq(c, LAMBDA img : ~DateLt(img.date, start) /\ DateLt(img.date, end))

\* start.advance(1, 'month')
advance_month(d) ==
    IF d[2] = MonthsPerYear THEN <<d[1] + 1, 1, d[3]>> ELSE <<d[1], d[2] + 1, d[3]>>

\* .mean().multiply(config['scale_factor']); the mean of an empty
\* collection is an image without bands
process_with_images(mc) ==
    IF Len(mc) = 0
    THEN [bands |-> {}, masked |-> TRUE, value |-> NaN]
    ELSE [bands |-> mc[1].bands, masked |-> FALSE,
          value |-> Rat(SumOver(1 .. Len(mc), [k \in 1 .. Len(mc) |-> mc[k].value]),
                        Len(mc) * scale_factor_den)]

\* ee.Image.constant(0).toFloat().mask(ee.Image.constant(0)).rename(band)
process_without_images == [bands |-> {band}, masked |-> TRUE, value |-> NaN]

tagged(img, year, month) ==
    [year |-> year, month |-> month, bands |-> img.bands, masked |-> img.masked,
     value |-> img.value]

\* the monthly image computed without the check for an empty month
calculate_monthly_average_unguarded(c, year, month) ==
    tagged(process_with_images(
               filterDate(c, <<year, month, 1>>, advance_month(<<year, month, 1>>))),
           year, month)

\* lines 74-107
calculate_monthly_average(c, year, month) ==
    LET start == <<year, month, 1>>
        end == advance_month(start)
        monthly_collection_for_period == filterDate(c, start, end)
        condition == Len(monthly_collection_for_period) > 0
    IN  tagged(IF condition
               THEN process_with_images(monthly_collection_for_period)
               ELSE process_without_images,
               year, month)

\* years.map(lambda year: months.map(...)).flatten(): year by year, month by month
year_months ==
    [k \in 1 .. NYearsD * MonthsPerYear |->
        <<StartYear + ((k - 1) \div MonthsPerYear), ((k - 1) % MonthsPerYear) + 1>>]

\* stats.get(config['band']) of a dictionary without that key is an error
extract_fails(image) == band \notin image.bands

\* extract_value: reduceRegion gives null for a band that is masked everywhere
extract_value(image) ==
    [year |-> image.year, month |-> image.month,
     value |-> IF image.masked THEN None ELSE Some(image.value)]

\* lines 67-71
LoadCollection ==
    /\ dpc = "dataset"
    /\ collection' = filterDate(dataset, start_date, end_date)
    /\ dpc' = "filtered"
    /\ UNCHANGED <<dataset, monthly_collection, results_fc>>
    /\ UNCHANGED <<varsE, varsT, varsM, varsZ, varsA, varsF>>

\* lines 100-110
BuildMonthlyCollection ==
    /\ dpc = "filtered"
    /\ monthly_collection' =
         [k \in 1 .. Len(year_months) |->
             calculate_monthly_average(collection, year_months[k][1], year_months[k][2])]
    /\ dpc' = "monthly"
    /\ UNCHANGED <<dataset, collection, results_fc>>
    /\ UNCHANGED <<varsE, varsT, varsM, varsZ, varsA, varsF>>

\* lines 128-146: the export task maps extract_value and writes the table
ExportTable ==
    /\ dpc = "monthly"
    /\ IF \E k \in 1 .. Len(monthly_collection) : extract_fails(monthly_collection[k])
       THEN /\ dpc' = "failed"
            /\ UNCHANGED results_fc
       ELSE /\ results_fc' =
                 [k \in 1 .. Len(monthly_collection) |->
                     extract_value(monthly_collection[k])]
            /\ dpc' = "exported"
    /\ UNCHANGED <<dataset, collection, monthly_collection>>
    /\ UNCHANGED <<varsE, varsT, varsM, varsZ, varsA, varsF>>

NextDownload == LoadCollection \/ BuildMonthlyCollection \/ ExportTable

\* The composites of the MODIS products start every 8 or 16 days from the
\* first day of a year, the last one on day 353 or 361: no image starts on
\* the 31st of December.  Images fall in January or December of a year
\* from the one before start_date on.
ImageDates ==
    {<<y, m, d>> : y \in StartYear - 1 .. EndYear, m \in {1, MonthsPerYear}, d \in {1, 27}}
Images == {[date |-> t, bands |-> {band}, value |-> v] : t \in ImageDates, v \in {1, 3}}

InitDownload ==
    /\ dataset \in UNION {[1 .. n -> Images] : n \in 0 .. MaxImages}
    /\ collection = <<>>
    /\ monthly_collection = <<>>
    /\ results_fc = <<>>
    /\ dpc = "dataset"
    /\ IdleE /\ IdleT /\ IdleM /\ IdleZ /\ IdleA /\ IdleF

SpecDownload == InitDownload /\ [][NextDownload]_vars

----------------------------------------------------------------------------
(* Claims about the monthly averages *)

\* the months from January of the start year to December of the end year
MonthsOfPeriod == (StartYear .. EndYear) \X (1 .. MonthsPerYear)

\* the images of the dataset that start in month ym
ValuesOfMonth(ym) ==
    {k \in 1 .. Len(dataset) :
        dataset[k].date[1] = ym[1] /\ dataset[k].date[2] = ym[2]}

ScaledMean(ym) ==
    Rat(SumOver(ValuesOfMonth(ym), [k \in ValuesOfMonth(ym) |-> dataset[k].value]),
        Cardinality(ValuesOfMonth(ym)) * scale_factor_den)

\* C22: every month from January of the start year to December of the end
\* year gets exactly one image tagged with its year and month, the scaled
\* mean of the month's images or, for a month without images, a fully
\* masked image with the same band name; the exported table has exactly one
\* record per month, null for the months without images, and the run never
\* fails on an empty month.
C22_OneRecordPerMonth ==
    /\ dpc # "failed"
    /\ dpc \in {"monthly", "exported"} =>
         \A ym \in MonthsOfPeriod :
            \E k \in 1 .. Len(monthly_collection) :
               LET img == monthly_collection[k]
               IN  /\ img.year = ym[1] /\ img.month = ym[2]
                   /\ \A j \in 1 .. Len(monthly_collection) :
                         (monthly_collection[j].year = ym[1]
                          /\ monthly_collection[j].month = ym[2]) => j = k
                   /\ img.bands = {band}
                   /\ IF ValuesOfMonth(ym) # {}
                      THEN ~img.masked /\ img.value = ScaledMean(ym)
                      ELSE img.masked
    /\ dpc \in {"monthly", "exported"} =>
         Len(monthly_collection) = Cardinality(MonthsOfPeriod)
    /\ dpc = "exported" =>
         /\ Len(results_fc) = Cardinality(MonthsOfPeriod)
         /\ \A ym \in MonthsOfPeriod :
               \E k \in 1 .. Len(results_fc) :
                  /\ results_fc[k].year = ym[1] /\ results_fc[k].month = ym[2]
                  /\ results_fc[k].value =
                        IF ValuesOfMonth(ym) # {} THEN Some(ScaledMean(ym)) ELSE None

\* December of the first year has two images of values 1 and 3, January of
\* the first year has none
C22_Witness ==
    /\ dpc = "exported"
    /\ Len(dataset) = 2
    /\ Len(collection) = 2
    /\ results_fc[MonthsPerYear].value = Some(Rat(2, scale_factor_den))
    /\ results_fc[1].value = None

====
